---------------------------- MODULE Spec2Model ----------------------------
(***************************************************************************)
(* HAL: fetch a page, extract its text by DOM first and by vision when the *)
(* DOM result is untrustworthy.  The module models                         *)
(*   - hal/safety.py   the SSRF gate (validate_url_safety),                *)
(*   - hal/config.py   the allowlist parsing the gate's allowlist comes    *)
(*                     from,                                               *)
(*   - hal/extract_dom.py  the confidence heuristic and should_use_vision, *)
(*   - hal/cache.py    the cache key and the files of the cache,           *)
(*   - hal/server.py   the browse handler (the extraction ladder),         *)
(*   - hal/sec_edgar.py  the retry loop of SecClient.get.                  *)
(* Strings whose characters matter (schemes, hostnames, allowlist values)  *)
(* are sequences of one-character strings.  Confidences are in hundredths. *)
(***************************************************************************)
EXTENDS Integers, Sequences, FiniteSets, TLC

VARIABLES
    gate,       \* one call of validate_url_safety: its arguments and its outcome
    settings,   \* hal.server.settings (allowlist_domains, openai_api_key)
    imports,    \* hal.extract_dom's optional imports: whether Document is there
    pc,         \* where the browse handler of the request is
    req,        \* the BrowseRequest
    now,        \* browse's local now (the fetch timestamp)
    key,        \* browse's local key
    fetch,      \* browse's local fetch (the BrowserFetchResult)
    dom,        \* browse's local dom (the DomExtractionResult)
    warnings,   \* browse's local warnings
    use_vision, \* browse's local use_vision
    vr,         \* browse's local vr (what vision.extract returned)
    resp,       \* what the handler gave the caller: a BrowseResponse or an HTTP error
    obs,        \* what the request did: calls made, the branch it took
    disk,       \* the files of the cache directory
    loop,       \* the event loop of the server process: its thread and its tasks
    backend,    \* what the backend of one call of vision.extract does
    sec         \* one call of SecClient.get: its loop, its sleeps, its outcome

vars == <<gate, settings, imports, pc, req, now, key, fetch, dom, warnings,
          use_vision, vr, resp, obs, disk, loop, backend, sec>>

\* Python's None where a string (a sequence of characters) may stand.
None == <<"None">>

-----------------------------------------------------------------------------
(* Strings as sequences of characters.                                      *)

LowerChar(c) ==
    CASE c = "E" -> "e"
      [] c = "X" -> "x"
      [] c = "C" -> "c"
      [] c = "O" -> "o"
      [] c = "H" -> "h"
      [] c = "T" -> "t"
      [] c = "P" -> "p"
      [] c = "S" -> "s"
      [] OTHER -> c

\* str.lower()
Lower(s) == [i \in 1..Len(s) |-> LowerChar(s[i])]

RECURSIVE LStrip(_)
LStrip(s) == IF s # <<>> /\ Head(s) = " " THEN LStrip(Tail(s)) ELSE s

RECURSIVE RStrip(_)
RStrip(s) ==
    IF s # <<>> /\ s[Len(s)] = " " THEN RStrip(SubSeq(s, 1, Len(s) - 1)) ELSE s

\* str.strip()
Strip(s) == RStrip(LStrip(s))

\* str.endswith(suffix)
EndsWith(s, suffix) ==
    /\ Len(suffix) <= Len(s)
    /\ SubSeq(s, Len(s) - Len(suffix) + 1, Len(s)) = suffix

\* str.split(sep) for a one-character separator: the pieces between the
\* separators, empty pieces kept.
RECURSIVE SplitFrom(_, _, _)
SplitFrom(s, sep, piece) ==
    IF s = <<>> THEN <<piece>>
    ELSE IF Head(s) = sep THEN <<piece>> \o SplitFrom(Tail(s), sep, <<>>)
    ELSE SplitFrom(Tail(s), sep, Append(piece, Head(s)))

Split(s, sep) == SplitFrom(s, sep, <<>>)

\* The pieces that are not blank (the comprehension's "if part.strip()").
RECURSIVE NonBlank(_)
NonBlank(parts) ==
    IF parts = <<>> THEN <<>>
    ELSE IF Strip(Head(parts)) # <<>> THEN <<Head(parts)>> \o NonBlank(Tail(parts))
    ELSE NonBlank(Tail(parts))

Range(s) == {s[i] : i \in 1..Len(s)}

-----------------------------------------------------------------------------
(* hal/config.py                                                            *)

\* _parse_allowlist: the comma-separated parts, stripped and lower-cased,
\* without the empty ones; no value (None or "") gives no entry.
_parse_allowlist(value) ==
    IF value = None \/ value = <<>> THEN <<>>
    ELSE LET kept == NonBlank(Split(value, ","))
         IN  [i \in 1..Len(kept) |-> Lower(Strip(kept[i]))]

-----------------------------------------------------------------------------
(* hal/safety.py                                                            *)

\* An IPv4 address is its four octets.
InNet(ip, a, b, c, d, len) ==
    \* ip is in the network a.b.c.d/len: the first len bits agree (compared in
    \* two 16-bit halves).
    LET hi == ip[1] * 256 + ip[2]
        lo == ip[3] * 256 + ip[4]
        nhi == a * 256 + b
        nlo == c * 256 + d
    IN  IF len <= 16
        THEN hi \div (2 ^ (16 - len)) = nhi \div (2 ^ (16 - len))
        ELSE hi = nhi /\ lo \div (2 ^ (32 - len)) = nlo \div (2 ^ (32 - len))

\* ipaddress.IPv4Address.is_private and its siblings (the networks of CPython's
\* ipaddress._IPv4Constants).
is_private(ip) ==
    \/ InNet(ip, 0, 0, 0, 0, 8)
    \/ InNet(ip, 10, 0, 0, 0, 8)
    \/ InNet(ip, 127, 0, 0, 0, 8)
    \/ InNet(ip, 169, 254, 0, 0, 16)
    \/ InNet(ip, 172, 16, 0, 0, 12)
    \/ InNet(ip, 192, 0, 0, 0, 29)
    \/ InNet(ip, 192, 0, 0, 170, 31)
    \/ InNet(ip, 192, 0, 2, 0, 24)
    \/ InNet(ip, 192, 168, 0, 0, 16)
    \/ InNet(ip, 198, 18, 0, 0, 15)
    \/ InNet(ip, 198, 51, 100, 0, 24)
    \/ InNet(ip, 203, 0, 113, 0, 24)
    \/ InNet(ip, 240, 0, 0, 0, 4)
    \/ InNet(ip, 255, 255, 255, 255, 32)

is_loopback(ip) == InNet(ip, 127, 0, 0, 0, 8)

is_link_local(ip) == InNet(ip, 169, 254, 0, 0, 16)

is_multicast(ip) == InNet(ip, 224, 0, 0, 0, 4)

is_reserved(ip) == InNet(ip, 240, 0, 0, 0, 4)

BLOCKED_IPS == {<<169, 254, 169, 254>>}

_is_blocked_ip(ip) ==
    \/ is_private(ip)
    \/ is_loopback(ip)
    \/ is_link_local(ip)
    \/ is_multicast(ip)
    \/ is_reserved(ip)
    \/ ip \in BLOCKED_IPS

\* A mutant of _domain_allowed: a plain suffix match, without the "." that
\* makes the suffix start at a label.
DomainAllowedPlainSuffix(hostname, allowlist) ==
    IF allowlist = <<>> THEN TRUE
    ELSE LET h == Lower(hostname)
         IN  \E i \in 1..Len(allowlist) : EndsWith(h, allowlist[i])

_domain_allowed(hostname, allowlist) ==
    IF allowlist = <<>> THEN TRUE
    ELSE LET h == Lower(hostname)
         IN  \E i \in 1..Len(allowlist) :
                 h = allowlist[i] \/ EndsWith(h, <<".">> \o allowlist[i])

\* urllib.parse.urlparse, as far as the gate reads it: the scheme and the
\* hostname come back lower-cased, a missing hostname as None; reading .port
\* raises ValueError when the port is out of range.
urlparse(url) ==
    [scheme   |-> Lower(url.scheme),
     hostname |-> IF url.host = <<>> THEN None ELSE Lower(url.host),
     port     |-> url.port]

Http == <<"h", "t", "t", "p">>
Https == <<"h", "t", "t", "p", "s">>

\* The decimal number a sequence of digits writes, -1 when it is not one.
Digits == <<"0", "1", "2", "3", "4", "5", "6", "7", "8", "9">>

DigitValue(c) == (CHOOSE i \in 1..10 : Digits[i] = c) - 1

RECURSIVE Decimal(_, _)
Decimal(s, acc) ==
    IF s = <<>> THEN acc
    ELSE IF Head(s) \notin Range(Digits) THEN -1
    ELSE Decimal(Tail(s), acc * 10 + DigitValue(Head(s)))

\* The address a dotted-quad hostname writes, <<>> for any other hostname.
IPLiteral(hostname) ==
    LET parts == Split(hostname, ".")
        nums == [i \in 1..Len(parts) |->
                    IF parts[i] = <<>> THEN -1 ELSE Decimal(parts[i], 0)]
    IN  IF Len(parts) = 4 /\ \A i \in 1..4 : nums[i] >= 0 /\ nums[i] <= 255
        THEN nums ELSE <<>>

\* What the resolver can answer for a name: addresses, or no answer (gaierror).
Resolved(addrs) == [raised |-> FALSE, infos |-> addrs]

GaiError == [raised |-> TRUE, infos |-> <<>>]

\* socket.getaddrinfo(hostname, port): an address literal resolves to itself,
\* a name to what the resolver answers.
getaddrinfo(hostname, answer) ==
    IF IPLiteral(hostname) # <<>> THEN Resolved(<<IPLiteral(hostname)>>) ELSE answer

NoIP == <<>>

Passed == [raised |-> FALSE, msg |-> "", ip |-> NoIP]

ValueError(msg, ip) == [raised |-> TRUE, msg |-> msg, ip |-> ip]

\* A mutant of CheckInfos: only the first resolved address is looked at.
CheckInfosFirstOnly(infos) ==
    IF infos # <<>> /\ _is_blocked_ip(Head(infos))
    THEN ValueError("Blocked host/IP by SSRF policy", Head(infos))
    ELSE Passed

\* The loop over infos: the first blocked address raises.
RECURSIVE CheckInfos(_)
CheckInfos(infos) ==
    IF infos = <<>> THEN Passed
    ELSE IF _is_blocked_ip(Head(infos))
         THEN ValueError("Blocked host/IP by SSRF policy", Head(infos))
         ELSE CheckInfos(Tail(infos))

\* A mutant of validate_url_safety: a hostname that does not resolve passes.
ValidateResolveFailurePasses(url, allowlist_domains, answer) ==
    LET parsed == urlparse(url)
        allowlist == allowlist_domains   \* "allowlist_domains or []": a list stays
    IN  IF parsed.scheme \notin {Http, Https}
        THEN ValueError("Only http/https URLs are allowed", NoIP)
        ELSE IF parsed.hostname = None
        THEN ValueError("URL must include a hostname", NoIP)
        ELSE IF ~_domain_allowed(parsed.hostname, allowlist)
        THEN ValueError("Domain is not in HAL_ALLOWLIST_DOMAINS", NoIP)
        ELSE IF parsed.port = "bad"
        THEN ValueError("Port out of range 0-65535", NoIP)
        ELSE LET infos == getaddrinfo(parsed.hostname, answer)
             IN  IF infos.raised THEN Passed ELSE CheckInfos(infos.infos)

\* validate_url_safety(url, allowlist_domains): Passed, or the ValueError raised.
validate_url_safety(url, allowlist_domains, answer) ==
    LET parsed == urlparse(url)
        allowlist == allowlist_domains   \* "allowlist_domains or []": a list stays
    IN  IF parsed.scheme \notin {Http, Https}
        THEN ValueError("Only http/https URLs are allowed", NoIP)
        ELSE IF parsed.hostname = None
        THEN ValueError("URL must include a hostname", NoIP)
        ELSE IF ~_domain_allowed(parsed.hostname, allowlist)
        THEN ValueError("Domain is not in HAL_ALLOWLIST_DOMAINS", NoIP)
        ELSE IF parsed.port = "bad"
        THEN ValueError("Port out of range 0-65535", NoIP)
        ELSE LET infos == getaddrinfo(parsed.hostname, answer)
             IN  IF infos.raised
                 THEN ValueError("Failed to resolve hostname", NoIP)
                 ELSE CheckInfos(infos.infos)


-----------------------------------------------------------------------------
(* hal/extract_dom.py                                                       *)
(* A text is the sequence of its lines (what splitlines() gives).  A line   *)
(* is [n: its length, pad: how many of these characters are whitespace at   *)
(* its two ends (what strip() removes), phrase: a phrase it contains, ""    *)
(* for none].                                                               *)

Line(n, pad, phrase) == [n |-> n, pad |-> pad, phrase |-> phrase]

RECURSIVE SumLen(_)
SumLen(text) == IF text = <<>> THEN 0 ELSE Head(text).n + SumLen(Tail(text))

\* len(text): the characters of the lines and the newlines between them.
TextLen(text) == IF text = <<>> THEN 0 ELSE SumLen(text) + Len(text) - 1

PAYWALL_HINTS ==
    {"enable javascript", "captcha", "subscribe to read", "paywall", "access denied"}

\* str.lower() of the phrases the texts of the model contain.
LowerPhrase(p) ==
    CASE p = "CAPTCHA" -> "captcha"
      [] p = "Access Denied" -> "access denied"
      [] OTHER -> p

\* any(h in text.lower() for h in PAYWALL_HINTS)
ContainsHint(text) ==
    \E i \in 1..Len(text) : LowerPhrase(text[i].phrase) \in PAYWALL_HINTS

\* len(ln.strip())
StrippedLen(ln) == ln.n - ln.pad

\* lines = [ln for ln in summary_text.splitlines() if ln.strip()]
RECURSIVE NonBlankLines(_)
NonBlankLines(text) ==
    IF text = <<>> THEN <<>>
    ELSE IF StrippedLen(Head(text)) > 0
         THEN <<Head(text)>> \o NonBlankLines(Tail(text))
         ELSE NonBlankLines(Tail(text))

\* short_lines = sum(1 for ln in lines if len(ln.strip()) < 40)
ShortLines(lines) == Cardinality({i \in 1..Len(lines) : StrippedLen(lines[i]) < 40})

Max(a, b) == IF a >= b THEN a ELSE b

Min(a, b) == IF a <= b THEN a ELSE b

\* A mutant of NavRatioHigh: a ratio of exactly 0.7 counts as high.
NavRatioHighInclusive(text) ==
    LET lines == NonBlankLines(text)
    IN  10 * ShortLines(lines) >= 7 * Max(Len(lines), 1)

\* nav_ratio > 0.7, with nav_ratio = short_lines / max(len(lines), 1)
NavRatioHigh(text) ==
    LET lines == NonBlankLines(text)
    IN  10 * ShortLines(lines) > 7 * Max(Len(lines), 1)

\* _clean_text on a text: runs of empty lines shrink to one empty line
\* ("\n{3,}" -> "\n\n") and strip() drops the blank lines at the two ends.
RECURSIVE CollapseEmpty(_)
CollapseEmpty(text) ==
    IF Len(text) < 2 THEN text
    ELSE IF text[1].n = 0 /\ text[2].n = 0 THEN CollapseEmpty(Tail(text))
    ELSE <<Head(text)>> \o CollapseEmpty(Tail(text))

RECURSIVE DropLeadingBlank(_)
DropLeadingBlank(text) ==
    IF text # <<>> /\ StrippedLen(Head(text)) = 0
    THEN DropLeadingBlank(Tail(text)) ELSE text

RECURSIVE DropTrailingBlank(_)
DropTrailingBlank(text) ==
    IF text # <<>> /\ StrippedLen(text[Len(text)]) = 0
    THEN DropTrailingBlank(SubSeq(text, 1, Len(text) - 1)) ELSE text

_clean_text(text) == DropTrailingBlank(DropLeadingBlank(CollapseEmpty(text)))

\* _html_to_text of readability's summary: the summary of the model is the
\* text of the summary HTML, which _clean_text then cleans.
_html_to_text(summary) == _clean_text(summary)

W_SHORT == "Readability returned short content, used body text fallback"
W_HINT == "Potential bot/captcha/paywall content detected"
W_NAV == "High navigation boilerplate ratio detected"

SHORT_CONTENT == 300    \* len(summary_text) < 300
SHORT_TEXT == 800       \* text_len < 800
BASE_CONF == 90         \* confidence = 0.9
PENALTY_SHORT == 35     \* confidence -= 0.35
PENALTY_HINT == 25      \* confidence -= 0.25
PENALTY_NAV == 20       \* confidence -= 0.2
LOW_CONF == 55          \* dom.confidence < 0.55

DomRaised == [raised |-> TRUE, title |-> "", text_markdown |-> <<>>,
              warnings |-> <<>>, confidence |-> 0]

\* A mutant of extract_dom_content: the penalties are taken off 0.0 and the
\* result is not clamped.
ExtractDomUnclamped(html, page_title, body_text, Document) ==
    LET summary_text == _clean_text(body_text)
    IN  [raised |-> FALSE, title |-> page_title, text_markdown |-> summary_text,
         warnings |-> <<>>,
         confidence |-> 0 - (IF TextLen(summary_text) < SHORT_TEXT
                             THEN PENALTY_SHORT ELSE 0)]

\* A mutant of extract_dom_content: a summary of exactly 300 characters is
\* short too.
ExtractDomFallbackInclusive(html, page_title, body_text, Document) ==
    IF Document /\ html.doc = "raises" THEN DomRaised
    ELSE
    LET summary0 == IF Document THEN _html_to_text(html.summary) ELSE <<>>
        fallback == TextLen(summary0) <= SHORT_CONTENT
        summary_text == IF fallback THEN _clean_text(body_text) ELSE summary0
        contains_hint == ContainsHint(summary_text)
        nav_high == NavRatioHigh(summary_text)
    IN  [raised |-> FALSE,
         title |-> IF Document /\ html.short_title # ""
                   THEN html.short_title ELSE page_title,
         text_markdown |-> summary_text,
         warnings |-> (IF fallback THEN <<W_SHORT>> ELSE <<>>)
                      \o (IF contains_hint THEN <<W_HINT>> ELSE <<>>)
                      \o (IF nav_high THEN <<W_NAV>> ELSE <<>>),
         confidence |->
            BASE_CONF - (IF TextLen(summary_text) < SHORT_TEXT THEN PENALTY_SHORT ELSE 0)
                      - (IF contains_hint THEN PENALTY_HINT ELSE 0)
                      - (IF nav_high THEN PENALTY_NAV ELSE 0)]

\* extract_dom_content(html, page_title, body_text).  html is what readability
\* makes of the page: [doc: "ok" or "raises", short_title, summary]; Document
\* tells whether readability could be imported.
extract_dom_content(html, page_title, body_text, Document) ==
    IF Document /\ html.doc = "raises" THEN DomRaised
    ELSE
    LET readable_title ==
            IF Document /\ html.short_title # "" THEN html.short_title ELSE page_title
        summary0 == IF Document THEN _html_to_text(html.summary) ELSE <<>>
        fallback == TextLen(summary0) < SHORT_CONTENT
        summary_text == IF fallback THEN _clean_text(body_text) ELSE summary0
        text_len == TextLen(summary_text)
        contains_hint == ContainsHint(summary_text)
        nav_high == NavRatioHigh(summary_text)
        confidence ==
            BASE_CONF - (IF text_len < SHORT_TEXT THEN PENALTY_SHORT ELSE 0)
                      - (IF contains_hint THEN PENALTY_HINT ELSE 0)
                      - (IF nav_high THEN PENALTY_NAV ELSE 0)
    IN  [raised |-> FALSE,
         title |-> readable_title,
         text_markdown |-> summary_text,
         warnings |-> (IF fallback THEN <<W_SHORT>> ELSE <<>>)
                      \o (IF contains_hint THEN <<W_HINT>> ELSE <<>>)
                      \o (IF nav_high THEN <<W_NAV>> ELSE <<>>),
         confidence |-> Max(0, Min(100, confidence))]

\* A mutant of should_use_vision: a text of exactly 800 characters is short.
ShouldUseVisionInclusive(d) ==
    TextLen(d.text_markdown) <= SHORT_TEXT
        \/ ContainsHint(d.text_markdown) \/ d.confidence < LOW_CONF

\* A mutant of should_use_vision: every confidence below 0.9 is low.
ShouldUseVisionBelowFull(d) ==
    \/ TextLen(d.text_markdown) < SHORT_TEXT
    \/ ContainsHint(d.text_markdown)
    \/ d.confidence < BASE_CONF

\* should_use_vision(dom)
should_use_vision(d) ==
    LET too_short == TextLen(d.text_markdown) < SHORT_TEXT
        hint == ContainsHint(d.text_markdown)
        low_conf == d.confidence < LOW_CONF
    IN  too_short \/ hint \/ low_conf

-----------------------------------------------------------------------------
(* The gate on its own: one call of validate_url_safety, its arguments       *)
(* drawn from the sets below.                                                *)

MaxAddrs == 2     \* the resolver answers with at most this many addresses

ExCo == <<"e", "x", ".", "c", "o">>

Hosts ==
    { <<>>,                                          \* no hostname
      ExCo,                                          \* ex.co
      <<"E", "x", ".", "C", "O">>,                   \* Ex.CO
      <<"w", ".", "e", "x", ".", "c", "o">>,         \* w.ex.co
      <<"n", "e", "x", ".", "c", "o">>,              \* nex.co
      <<"e", "x", ".", "c", "o", ".", "n">>,         \* ex.co.n
      <<"w", ".", "n">>,                             \* w.n
      <<"8", ".", "8", ".", "8", ".", "8">>,         \* 8.8.8.8
      <<"1", "6", "9", ".", "2", "5", "4", ".", "1", "6", "9", ".", "2", "5", "4">> }

GateUrls ==
    [scheme : {Http, <<"H", "T", "T", "P", "S">>, <<"f", "t", "p">>},
     host : Hosts, port : {"none", "bad"}]

\* Values of the environment variable HAL_ALLOWLIST_DOMAINS.
AllowlistEnv ==
    { None,                                                    \* unset
      ExCo,                                                    \* "ex.co"
      <<"E", "X", ".", "c", "o">>,                             \* "EX.co"
      <<" ", "n", " ", ",", ",", "e", "x", ".", "c", "o">>,    \* " n ,,ex.co"
      <<"c", "o">>,                                            \* "co"
      <<",">> }                                                \* ","

PublicIP == <<93, 184, 216, 34>>

Addresses ==
    { PublicIP, <<127, 0, 0, 1>>, <<10, 0, 0, 1>>, <<169, 254, 169, 254>>,
      <<224, 0, 0, 1>>, <<240, 0, 0, 1>> }

\* getaddrinfo never returns an empty list: it raises gaierror instead.
SeqsUpTo(S, n) == UNION {[1..k -> S] : k \in 1..n}

DnsAnswers == {GaiError} \cup {Resolved(a) : a \in SeqsUpTo(Addresses, MaxAddrs)}

GateIdle == [pc |-> "idle"]

Nil == [nil |-> TRUE]

LadderVars == <<settings, imports, pc, req, now, key, fetch, dom, warnings,
                use_vision, vr, resp, obs, disk, loop, backend, sec>>

\* The handler is not part of the gate's own specification.
LadderOff ==
    /\ settings = Nil /\ imports = Nil /\ pc = "off" /\ req = Nil /\ now = Nil
    /\ key = Nil /\ fetch = Nil /\ dom = Nil /\ warnings = <<>>
    /\ use_vision = FALSE /\ vr = Nil /\ resp = Nil /\ obs = Nil /\ disk = Nil
    /\ loop = Nil /\ backend = Nil /\ sec = Nil

GateInit ==
    /\ gate \in [pc : {"call"}, url : GateUrls, env : AllowlistEnv,
                  answer : DnsAnswers, result : {Passed}]
    /\ LadderOff

\* validate_url_safety(url, settings.allowlist_domains) runs and returns or raises.
GateValidate ==
    /\ gate.pc = "call"
    /\ gate' = [gate EXCEPT
                  !.pc = "returned",
                  !.result = validate_url_safety(gate.url, _parse_allowlist(gate.env),
                                                 gate.answer)]
    /\ UNCHANGED LadderVars

GateNext == GateValidate

SpecSafety == GateInit /\ [][GateNext]_vars

-----------------------------------------------------------------------------
(* Claims about the gate, checked under SpecSafety.                          *)

GateReturned == gate.pc = "returned"

GateAllowlist == _parse_allowlist(gate.env)

\* What the call resolved: the answer for the hostname of the URL.
GateInfos == getaddrinfo(Lower(gate.url.host), gate.answer)

\* The address classes the policy names.
PolicyBlocks(ip) ==
    \/ is_private(ip) \/ is_loopback(ip) \/ is_link_local(ip)
    \/ is_multicast(ip) \/ is_reserved(ip) \/ ip = <<169, 254, 169, 254>>

\* The hostname, whatever its case, is an entry or a subdomain of an entry.
OnAllowlist(host, allowlist) ==
    \E i \in 1..Len(allowlist) :
        \/ Lower(host) = Lower(allowlist[i])
        \/ EndsWith(Lower(host), <<".">> \o Lower(allowlist[i]))

GateSchemeOk == Lower(gate.url.scheme) \in {Http, Https}

GateHasHost == gate.url.host # <<>>

\* The call got past the allowlist check: it was not refused by one of the
\* three checks up to it.
GatePastAllowlist ==
    gate.result.msg \notin {"Only http/https URLs are allowed",
                            "URL must include a hostname",
                            "Domain is not in HAL_ALLOWLIST_DOMAINS"}

\* C2: a resolution that returns a blocked address (private, loopback,
\* link-local, multicast, reserved or 169.254.169.254) at any position, among
\* any other addresses, ends in a rejection.
C2_AnyBlockedAddressRejects ==
    (/\ GateReturned
     /\ GateHasHost
     /\ ~GateInfos.raised
     /\ \E i \in 1..Len(GateInfos.infos) : PolicyBlocks(GateInfos.infos[i]))
    => gate.result.raised

\* A URL that passes every earlier check and resolves to a public address
\* followed by a loopback address is rejected for the second one.
C2_Witness ==
    /\ GateReturned
    /\ gate.url.host = ExCo
    /\ gate.answer = Resolved(<<PublicIP, <<127, 0, 0, 1>> >>)
    /\ gate.result = ValueError("Blocked host/IP by SSRF policy", <<127, 0, 0, 1>>)

\* C3: with a non-empty allowlist a URL with a scheme and a hostname gets past
\* the allowlist check iff its hostname, case ignored, is an entry or ends with
\* "." and an entry; with an empty allowlist it always does.
C3_AllowlistWholeLabelSuffix ==
    (GateReturned /\ GateSchemeOk /\ GateHasHost) =>
        IF GateAllowlist = <<>>
        THEN GatePastAllowlist
        ELSE GatePastAllowlist <=> OnAllowlist(gate.url.host, GateAllowlist)

\* nex.co ends with the characters of the entry ex.co but is no subdomain of
\* it: the allowlist check refuses it.
C3_Witness ==
    /\ GateReturned
    /\ GateSchemeOk
    /\ gate.url.host = <<"n", "e", "x", ".", "c", "o">>
    /\ GateAllowlist = <<ExCo>>
    /\ gate.result = ValueError("Domain is not in HAL_ALLOWLIST_DOMAINS", NoIP)

\* C4: the call passes iff the scheme is http or https, there is a hostname,
\* the hostname passes the allowlist, the resolution is made and succeeds, and
\* no resolved address is blocked; any other call raises with a reason.
C4_AcceptsIffAllChecksPass ==
    GateReturned =>
        /\ ~gate.result.raised <=>
                /\ GateSchemeOk
                /\ GateHasHost
                /\ GateAllowlist = <<>> \/ OnAllowlist(gate.url.host, GateAllowlist)
                /\ gate.url.port # "bad"
                /\ ~GateInfos.raised
                /\ \A i \in 1..Len(GateInfos.infos) : ~PolicyBlocks(GateInfos.infos[i])
        /\ gate.result.raised => gate.result.msg # ""

\* A hostname on the allowlist that does not resolve is rejected.
C4_Witness ==
    /\ GateReturned
    /\ GateSchemeOk
    /\ gate.url.host = ExCo
    /\ GateAllowlist = <<ExCo>>
    /\ gate.url.port = "none"
    /\ gate.answer = GaiError
    /\ gate.result = ValueError("Failed to resolve hostname", NoIP)

-----------------------------------------------------------------------------
(* hal/cache.py                                                             *)

\* A mutant of cache_key: the whole timestamp is hashed, not its day.
CacheKeyOfTimestamp(url, fetched_at, mode) ==
    [url |-> url, day |-> fetched_at, mode |-> mode]

\* CacheStore.cache_key(url, fetched_at, mode): the first 24 hex digits of
\* sha256("url|day|mode"), day being fetched_at's calendar day; the key of the
\* model is the hashed triple itself (no two triples collide).
cache_key(url, fetched_at, mode) ==
    [url |-> url, day |-> fetched_at.day, mode |-> mode]

\* CacheStore.screenshot_path(key, suffix)
screenshot_path(k, suffix) == [key |-> k, suffix |-> suffix]

FullSuffix == [kind |-> "full", idx |-> 0]

SelectorSuffix(idx) == [kind |-> "selector", idx |-> idx]

\* A mutant of Put: a file that is there is left as it is.
PutIfAbsent(files, path, content) ==
    [f \in DOMAIN files \cup {path} |->
        IF f \in DOMAIN files THEN files[f] ELSE content]

\* Path.write_text / a screenshot written to a path: the file is created or
\* overwritten.
Put(files, path, content) ==
    [f \in DOMAIN files \cup {path} |-> IF f = path THEN content ELSE files[f]]

EmptyDisk == [html |-> <<>>, text |-> <<>>, shots |-> <<>>, log |-> <<>>]

\* CacheStore.save_html(key, html)
save_html(d, k, html) ==
    [d EXCEPT !.html = Put(@, k, html),
              !.log = Append(@, [op |-> "save_html", key |-> k])]

\* A mutant of save_text_json: nothing is written.
SaveTextJsonSkipped(d, k, payload) == d

\* CacheStore.save_text_json(key, payload)
save_text_json(d, k, payload) ==
    [d EXCEPT !.text = Put(@, k, payload),
              !.log = Append(@, [op |-> "save_text_json", key |-> k])]

-----------------------------------------------------------------------------
(* hal/browser.py                                                           *)

\* The selector captures of _take_screenshots, from index idx on: a selector
\* with no element in the page is skipped.
RECURSIVE SelectorPaths(_, _, _, _)
SelectorPaths(selectors, idx, elements, k) ==
    IF selectors = <<>> THEN <<>>
    ELSE (IF Head(selectors) \in elements
          THEN <<screenshot_path(k, SelectorSuffix(idx))>> ELSE <<>>)
         \o SelectorPaths(Tail(selectors), idx + 1, elements, k)

\* _take_screenshots: the paths, the full-page capture first.
ScreenshotPaths(page, screenshot, k) ==
    <<screenshot_path(k, FullSuffix)>>
    \o SelectorPaths(screenshot.selectors, 0, page.elements, k)

\* The disk once the captures at paths[i..] are written: each file holds the
\* image of that part of that page.
RECURSIVE WriteShots(_, _, _)
WriteShots(d, paths, page) ==
    IF paths = <<>> THEN d
    ELSE WriteShots([d EXCEPT !.shots = Put(@, Head(paths),
                                            [page |-> page.id,
                                             part |-> Head(paths).suffix])],
                    Tail(paths), page)

\* fetch_with_playwright returning: the BrowserFetchResult.
FetchResult(page, screenshot, k) ==
    [title |-> page.title, html |-> page.html, body_text |-> page.body_text,
     links |-> page.links, screenshots |-> ScreenshotPaths(page, screenshot, k)]

-----------------------------------------------------------------------------
(* hal/extract_vision.py                                                    *)

\* VisionExtractor.__init__ and available(): a client exists iff the key is
\* set and not empty.
VisionAvailable(api_key) == api_key \notin {"None", ""}

\* A JSON value of the backend's answer, as far as browse reads it: for each
\* of the four keys [t: the type of the value ("numstr": a string that float()
\* reads as a number) or "absent", s: a string's text, n: a number in
\* hundredths, l: a list's strings].
JVal(t, text, n, l) == [t |-> t, s |-> text, n |-> n, l |-> l]

Absent == JVal("absent", <<>>, 0, <<>>)

JStr(text) == JVal("str", text, 0, <<>>)

JNum(n) == JVal("num", <<>>, n, <<>>)

JList(l) == JVal("list", <<>>, 0, l)

JDict(text, tables, conf, warns) ==
    [t |-> "dict", text_markdown |-> text, tables_markdown |-> tables,
     confidence |-> conf, warnings |-> warns]

\* A JSON value that is no object (a list, a string, a number, null).
JNonDict(t) ==
    [t |-> t, text_markdown |-> Absent, tables_markdown |-> Absent,
     confidence |-> Absent, warnings |-> Absent]

\* The raw text of the backend's answer, as far as its parse goes, is a
\* sequence of pieces: "{" and "}", "s" (what stands inside a JSON object
\* between its braces: a key with a scalar value), "a" (a JSON value that is
\* no object, such as an array) and "w" (prose, which is no JSON).

\* The number of "{" less the number of "}" among the first i pieces.
RECURSIVE BraceDepth(_, _)
BraceDepth(text, i) ==
    IF i = 0 THEN 0
    ELSE BraceDepth(text, i - 1)
         + (IF text[i] = "{" THEN 1 ELSE IF text[i] = "}" THEN -1 ELSE 0)

\* The text is one JSON object: it opens with a brace that its last piece
\* closes, and holds nothing but members and objects.
IsObject(text) ==
    /\ Len(text) >= 2
    /\ text[1] = "{" /\ text[Len(text)] = "}"
    /\ \A i \in 1..Len(text) - 1 : BraceDepth(text, i) >= 1
    /\ BraceDepth(text, Len(text)) = 0
    /\ \A i \in 2..Len(text) - 1 : text[i] \in {"{", "}", "s"}

\* json.loads(text) returns (it raises JSONDecodeError otherwise).
json_loads_ok(text) == IsObject(text) \/ text = <<"a">>

NoMatch == <<"no match">>

\* re.search(r"\{.*\}", raw, re.S): the leftmost "{" that a "}" follows, and,
\* the star being greedy and the dot matching newlines, all up to the last "}"
\* of the text.
re_search(raw) ==
    LET opens == {i \in 1..Len(raw) : raw[i] = "{"}
        closes == {j \in 1..Len(raw) : raw[j] = "}"}
        first == CHOOSE i \in opens : \A k \in opens : i <= k
        last == CHOOSE j \in closes : \A k \in closes : j >= k
    IN  IF opens = {} \/ closes = {} THEN NoMatch
        ELSE IF last < first THEN NoMatch
        ELSE SubSeq(raw, first, last)

\* parsed: the text json.loads made the value of.
Returned(value, parsed) ==
    [raised |-> FALSE, exc |-> "", value |-> value, parsed |-> parsed]

Raised(exc) ==
    [raised |-> TRUE, exc |-> exc, value |-> JNonDict("null"), parsed |-> <<>>]

\* VisionExtractor.extract(screenshot_paths) once the client exists.  answer
\* is what the backend did: [api: "ok" or "error" (the call raised), raw: the
\* output text, value: the JSON value that the part of the text json.loads
\* accepts stands for].
extract(answer) ==
    IF answer.api = "error" THEN Raised("backend error")
    ELSE IF json_loads_ok(answer.raw) THEN Returned(answer.value, answer.raw)
    ELSE LET m == re_search(answer.raw)
         IN  IF m = NoMatch THEN Raised("Vision model returned non-JSON payload")
             ELSE IF json_loads_ok(m) THEN Returned(answer.value, m)
             ELSE Raised("JSONDecodeError")

-----------------------------------------------------------------------------
(* hal/server.py                                                            *)

W_AUTO == "Auto mode switched to vision due to extraction heuristics"
W_NOKEY == "Vision requested but OPENAI_API_KEY not set; returned DOM extraction"

\* f"Vision extraction failed: {exc}"
W_FAILED(exc) == "Vision extraction failed: " \o exc

\* get_settings(): the Settings of the process, from its environment.
get_settings(env_allowlist, env_key) ==
    [env |-> env_allowlist,
     allowlist_domains |-> _parse_allowlist(env_allowlist),
     openai_api_key |-> env_key]

\* A mutant of GateRejects: the ValueError of the gate is swallowed.
GateRejectsNever(verdict) == FALSE

\* "except ValueError": the gate raised.
GateRejects(verdict) == verdict.raised

\* A mutant of UseVision: the visual_extraction flag is not read.
UseVisionIgnoresFlag(mode, visual_extraction, needs) ==
    mode = "vision" \/ (mode = "auto" /\ needs)

\* use_vision once lines 87-89 have run.
UseVision(mode, visual_extraction, needs) ==
    (mode = "vision" \/ visual_extraction) \/ (mode = "auto" /\ needs)

\* A mutant of DomBranch: the mode is not looked at.
DomBranchIgnoresMode(mode, uv) == ~uv

\* "if not use_vision or req.mode == 'dom'": the DOM outcome is returned.
DomBranch(mode, uv) == ~uv \/ mode = "dom"

\* A mutant of ConfidenceUnavailable: the penalty is forgotten.
ConfidenceUnavailableUnchanged(c) == c

\* max(0.2, dom.confidence - 0.1)
ConfidenceUnavailable(c) == Max(20, c - 10)

\* A mutant of ConfidenceFailed: the penalty of the other branch.
ConfidenceFailedSmallPenalty(c) == Max(20, c - 10)

\* max(0.2, dom.confidence - 0.2)
ConfidenceFailed(c) == Max(20, c - 20)

HttpError(status, detail) == [status |-> status, detail |-> detail]

UrlCitation(url) == [type |-> "url", value |-> url]

\* A mutant of ScreenshotCitations: the paths are cited last first.
ScreenshotCitationsReversed(paths) ==
    [i \in 1..Len(paths) |->
        [type |-> "screenshot", value |-> paths[Len(paths) + 1 - i]]]

ScreenshotCitations(paths) ==
    [i \in 1..Len(paths) |-> [type |-> "screenshot", value |-> paths[i]]]

NoTables == [present |-> FALSE, text |-> <<>>]

\* The BrowseResponse of the three branches that return the DOM outcome.
DomResponse(url, fetched_at, f, d, warns, confidence) ==
    [status |-> 200, url |-> url, fetched_at |-> fetched_at, method_used |-> "dom",
     title |-> d.title, text_markdown |-> d.text_markdown,
     tables_markdown |-> NoTables, links |-> f.links,
     screenshots |-> f.screenshots, warnings |-> warns,
     confidence |-> confidence, citations |-> <<UrlCitation(url)>>]

\* Building the vision response raises: vr has no get (it is no dict),
\* "warnings + vr.get(...)" is no list concatenation, float() refuses the
\* confidence, or the model refuses the type of a text field.
VisionResponseRaises(v) ==
    \/ v.t # "dict"
    \/ v.text_markdown.t \notin {"absent", "str"}
    \/ v.tables_markdown.t \notin {"absent", "null", "str"}
    \/ v.warnings.t \notin {"absent", "list"}
    \/ v.confidence.t \notin {"absent", "num", "numstr"}

\* A mutant of VisionResponse: the warnings of the DOM outcome, collected
\* first, are left out of the vision response.
VisionResponseWithoutDomWarnings(url, fetched_at, f, d, warns, v) ==
    [status |-> 200, url |-> url, fetched_at |-> fetched_at, method_used |-> "vision",
     title |-> d.title,
     text_markdown |-> IF v.text_markdown.t = "str" THEN v.text_markdown.s ELSE <<>>,
     tables_markdown |->
        IF v.tables_markdown.t = "str"
        THEN [present |-> TRUE, text |-> v.tables_markdown.s] ELSE NoTables,
     links |-> f.links, screenshots |-> f.screenshots,
     warnings |-> SubSeq(warns, Len(d.warnings) + 1, Len(warns))
                  \o (IF v.warnings.t = "list" THEN v.warnings.l ELSE <<>>),
     confidence |-> IF v.confidence.t \in {"num", "numstr"}
                    THEN v.confidence.n ELSE 50,
     citations |-> <<UrlCitation(url)>>
                   \o [i \in 1..Len(f.screenshots) |->
                          [type |-> "screenshot", value |-> f.screenshots[i]]]]

\* A mutant of VisionResponse: the method is vision and the tables are the
\* vision result's, but the text is the DOM outcome's.
VisionResponseWithDomText(url, fetched_at, f, d, warns, v) ==
    [status |-> 200, url |-> url, fetched_at |-> fetched_at, method_used |-> "vision",
     title |-> d.title,
     text_markdown |-> d.text_markdown,
     tables_markdown |->
        IF v.tables_markdown.t = "str"
        THEN [present |-> TRUE, text |-> v.tables_markdown.s] ELSE NoTables,
     links |-> f.links, screenshots |-> f.screenshots,
     warnings |-> warns \o (IF v.warnings.t = "list" THEN v.warnings.l ELSE <<>>),
     confidence |-> IF v.confidence.t \in {"num", "numstr"}
                    THEN v.confidence.n ELSE 50,
     citations |-> <<UrlCitation(url)>>
                   \o [i \in 1..Len(f.screenshots) |->
                          [type |-> "screenshot", value |-> f.screenshots[i]]]]

\* The BrowseResponse of the vision branch.
VisionResponse(url, fetched_at, f, d, warns, v) ==
    [status |-> 200, url |-> url, fetched_at |-> fetched_at, method_used |-> "vision",
     title |-> d.title,
     text_markdown |-> IF v.text_markdown.t = "str" THEN v.text_markdown.s ELSE <<>>,
     tables_markdown |->
        IF v.tables_markdown.t = "str"
        THEN [present |-> TRUE, text |-> v.tables_markdown.s] ELSE NoTables,
     links |-> f.links, screenshots |-> f.screenshots,
     warnings |-> warns \o (IF v.warnings.t = "list" THEN v.warnings.l ELSE <<>>),
     confidence |-> IF v.confidence.t \in {"num", "numstr"}
                    THEN v.confidence.n ELSE 50,
     citations |-> <<UrlCitation(url)>> \o ScreenshotCitations(f.screenshots)]

\* resp.model_dump(mode="json"): the fields of the response.
model_dump(r) ==
    [url |-> r.url, fetched_at |-> r.fetched_at, method_used |-> r.method_used,
     title |-> r.title, text_markdown |-> r.text_markdown,
     tables_markdown |-> r.tables_markdown, links |-> r.links,
     screenshots |-> r.screenshots, warnings |-> r.warnings,
     confidence |-> r.confidence, citations |-> r.citations]

-----------------------------------------------------------------------------
(* The inputs of a request: the environment of the process, the request,    *)
(* the clock, the resolver, the page the renderer finds, the backend.       *)

LongClean == <<Line(400, 0, ""), Line(400, 0, "")>>            \* 801 characters
Medium == <<Line(350, 0, "")>>                                 \* 350 characters
Tiny == <<Line(4, 0, "")>>                                     \* "tiny"
Captcha == <<Line(7, 0, "CAPTCHA")>>
LongHint == <<Line(400, 0, ""), Line(400, 0, "paywall")>>
NavLong == [i \in 1..21 |-> Line(39, 0, "")]                   \* 839 characters
NavEdge == [i \in 1..10 |-> Line(IF i <= 7 THEN 39 ELSE 200, 0, "")]  \* ratio 0.7
ShortHint == <<Line(50, 0, "Access Denied")>>
NavHint == [i \in 1..21 |-> Line(39, 0, IF i = 1 THEN "subscribe to read" ELSE "")]

Html(doc, short_title, summary) ==
    [doc |-> doc, short_title |-> short_title, summary |-> summary]

Page(id, title, html, body_text, elements) ==
    [id |-> id, title |-> title, html |-> html, body_text |-> body_text,
     links |-> <<"https://ex.co/next">>, elements |-> elements]

Pages ==
    { Page("story", "Story", Html("ok", "Story", LongClean), LongClean, {"#main"}),
      Page("medium", "Medium", Html("ok", "", Medium), Medium, {}),
      Page("tiny", "t", Html("ok", "", Tiny), Tiny, {}),
      Page("captcha", "Check", Html("ok", "", Captcha), Captcha, {"#main"}),
      Page("paywalled", "News", Html("ok", "News", LongHint), LongHint, {}),
      Page("menu", "Menu", Html("ok", "Menu", NavLong), NavLong, {}),
      Page("denied", "Denied", Html("ok", "", ShortHint), ShortHint, {}),
      Page("teaser", "Teaser", Html("ok", "Teaser", NavHint), NavHint, {}),
      Page("listing", "Listing", Html("ok", "Listing", NavEdge), NavEdge, {}),
      Page("app", "App", Html("ok", "", Tiny), LongClean, {}),
      Page("brief", "Brief", Html("ok", "", <<Line(300, 0, "")>>), LongClean, {}),
      Page("note", "Note", Html("ok", "", <<Line(299, 0, "")>>), LongClean, {}),
      Page("padded", "Padded",
           Html("ok", "", <<Line(0, 0, ""), Line(2, 2, ""), Line(299, 0, ""),
                            Line(0, 0, "")>>),
           Medium, {}),
      Page("broken", "Broken", Html("raises", "", <<>>), LongClean, {}) }

LadderUrls ==
    { [scheme |-> Http, host |-> ExCo, port |-> "none"],
      [scheme |-> Https, host |-> <<"w", ".", "n">>, port |-> "none"],
      [scheme |-> Http, port |-> "none", host |->
        <<"1", "6", "9", ".", "2", "5", "4", ".", "1", "6", "9", ".", "2", "5", "4">>] }

Modes == {"auto", "dom", "vision"}

Requests ==
    [url : LadderUrls, mode : Modes, visual_extraction : BOOLEAN,
     screenshot : [selectors : {<<>>, <<"#main">>}]]

\* datetime.now(timezone.utc): a UTC day and an hour of it.
Times == {[day |-> 1, hour |-> 0], [day |-> 1, hour |-> 23], [day |-> 2, hour |-> 0]}

LadderAnswers ==
    {GaiError, Resolved(<<PublicIP>>), Resolved(<<PublicIP, <<10, 0, 0, 1>> >>)}

VisionText == <<Line(900, 0, "")>>

RawObject == <<"{", "s", "}">>

Backend(api, raw, value) == [api |-> api, raw |-> raw, value |-> value]

BackendAnswers ==
    { Backend("error", <<>>, JNonDict("null")),
      Backend("ok", <<"w", "w">>, JNonDict("null")),
      Backend("ok", <<"w", "{", "s", "w", "}">>, JNonDict("null")),
      Backend("ok", RawObject,
              JDict(JStr(VisionText), JStr(Tiny), JNum(80), JList(<<"blurred text">>))),
      Backend("ok", <<"w", "{", "s", "}", "w">>,
              JDict(JStr(VisionText), Absent, JNum(80), Absent)),
      Backend("ok", RawObject, JDict(JStr(VisionText), Absent, Absent, Absent)),
      Backend("ok", RawObject, JDict(JStr(VisionText), Absent, JNum(150), Absent)),
      Backend("ok", RawObject, JDict(Absent, Absent, JNum(80), Absent)),
      Backend("ok", <<"a">>, JNonDict("list")),
      Backend("ok", RawObject,
              JDict(JStr(VisionText), Absent, JNum(80), JStr(Tiny))),
      Backend("ok", RawObject,
              JDict(JStr(VisionText), Absent, JStr(Tiny), Absent)) }

\* seq: the how-manyth request of the process this one is.
NoObs ==
    [seq |-> 1, safety |-> 0, fetch |-> 0, dom |-> 0, vision |-> 0,
     escalated |-> "undecided", extract |-> "none", exc |-> "", branch |-> "none"]

-----------------------------------------------------------------------------
(* The browse handler, one request from its arrival to its answer.          *)

Init ==
    /\ gate = GateIdle
    /\ settings \in {get_settings(a, k) : a \in {None, ExCo}, k \in {"None", "sk-key"}}
    /\ imports \in [Document : BOOLEAN]
    /\ pc = "idle"
    /\ req = Nil /\ now = Nil /\ key = Nil /\ fetch = Nil /\ dom = Nil
    /\ warnings = <<>> /\ use_vision = FALSE /\ vr = Nil /\ resp = Nil
    /\ obs = NoObs
    /\ disk = EmptyDisk
    /\ loop = Nil /\ backend = Nil /\ sec = Nil

\* browse, lines 63-81 up to the await: the clock is read, the gate runs; a
\* rejection ends the request with 400, otherwise the key is computed and the
\* fetch starts.
BrowseStart(r, t, answer) ==
    /\ pc = "idle"
    /\ LET verdict == validate_url_safety(r.url, settings.allowlist_domains, answer)
       IN  /\ gate' = [pc |-> "returned", url |-> r.url, env |-> settings.env,
                       answer |-> answer, result |-> verdict]
           /\ req' = r
           /\ now' = t
           /\ IF GateRejects(verdict)
              THEN /\ pc' = "rejected"
                   /\ resp' = HttpError(400, verdict.msg)
                   /\ obs' = [obs EXCEPT !.safety = @ + 1]
                   /\ UNCHANGED <<key, warnings>>
              ELSE /\ pc' = "fetching"
                   /\ key' = cache_key(r.url, t, r.mode)
                   /\ warnings' = <<>>
                   /\ obs' = [obs EXCEPT !.safety = @ + 1, !.fetch = @ + 1]
                   /\ UNCHANGED resp
    /\ UNCHANGED <<settings, imports, fetch, dom, use_vision, vr, disk, loop, backend, sec>>

\* A mutant of FetchRaises: the handler saves what HTML there is before it
\* reports the failure.
FetchRaisesSavesHtml(page, captured) ==
    /\ pc = "fetching"
    /\ pc' = "failed"
    /\ resp' = HttpError(502, "Browser error")
    /\ disk' = save_html(disk, key, page.html)
    /\ UNCHANGED <<sec, backend, loop, gate, settings, imports, req, now, key, fetch, dom, warnings,
                   use_vision, vr, obs>>

\* fetch_with_playwright raises RuntimeError: the request ends with 502.  The
\* renderer may have failed after the full-page capture was written.
FetchRaises(page, captured) ==
    /\ pc = "fetching"
    /\ pc' = "failed"
    /\ resp' = HttpError(502, "Browser error")
    /\ disk' = IF captured
               THEN WriteShots(disk, <<screenshot_path(key, FullSuffix)>>, page)
               ELSE disk
    /\ UNCHANGED <<sec, backend, loop, gate, settings, imports, req, now, key, fetch, dom, warnings,
                   use_vision, vr, obs>>

\* fetch_with_playwright returns; browse runs on (lines 83-128) to its return
\* of a DOM outcome or into vision.extract.
FetchReturns(page) ==
    /\ pc = "fetching"
    /\ LET f == FetchResult(page, req.screenshot, key)
           d1 == WriteShots(disk, f.screenshots, page)
           d2 == save_html(d1, key, f.html)
           d == extract_dom_content(f.html, f.title, f.body_text, imports.Document)
           needs == should_use_vision(d)
           uv == UseVision(req.mode, req.visual_extraction, needs)
           w1 == warnings \o d.warnings
           w2 == IF req.mode = "auto" /\ needs THEN Append(w1, W_AUTO) ELSE w1
       IN  /\ fetch' = f
           /\ dom' = d
           /\ IF d.raised
              THEN \* extract_dom_content raised: nothing catches it
                   /\ pc' = "error"
                   /\ resp' = HttpError(500, "Internal Server Error")
                   /\ disk' = d2
                   /\ obs' = [obs EXCEPT !.dom = @ + 1]
                   /\ UNCHANGED <<warnings, use_vision>>
              ELSE IF DomBranch(req.mode, uv)
              THEN LET out == DomResponse(req.url, now, f, d, w2, d.confidence)
                   IN  /\ pc' = "done"
                       /\ resp' = out
                       /\ disk' = save_text_json(d2, key, model_dump(out))
                       /\ warnings' = w2
                       /\ use_vision' = uv
                       /\ obs' = [obs EXCEPT !.dom = @ + 1, !.escalated = "no",
                                             !.branch = "dom"]
              ELSE IF ~VisionAvailable(settings.openai_api_key)
              THEN LET w3 == Append(w2, W_NOKEY)
                       out == DomResponse(req.url, now, f, d, w3,
                                          ConfidenceUnavailable(d.confidence))
                   IN  /\ pc' = "done"
                       /\ resp' = out
                       /\ disk' = save_text_json(d2, key, model_dump(out))
                       /\ warnings' = w3
                       /\ use_vision' = uv
                       /\ obs' = [obs EXCEPT !.dom = @ + 1, !.escalated = "yes",
                                             !.branch = "unavailable"]
              ELSE /\ pc' = "vision"
                   /\ disk' = d2
                   /\ warnings' = w2
                   /\ use_vision' = uv
                   /\ obs' = [obs EXCEPT !.dom = @ + 1, !.escalated = "yes",
                                         !.vision = @ + 1]
                   /\ UNCHANGED resp
    /\ UNCHANGED <<sec, backend, loop, gate, settings, imports, req, now, key, vr>>

\* vision.extract returns or raises; browse runs on (lines 127-162) to its
\* return, or raises while it builds the vision response.
VisionReturns(answer) ==
    /\ pc = "vision"
    /\ LET r == extract(answer)
       IN  IF r.raised
           THEN LET w3 == Append(warnings, W_FAILED(r.exc))
                    out == DomResponse(req.url, now, fetch, dom, w3,
                                       ConfidenceFailed(dom.confidence))
                IN  /\ pc' = "done"
                    /\ resp' = out
                    /\ disk' = save_text_json(disk, key, model_dump(out))
                    /\ warnings' = w3
                    /\ obs' = [obs EXCEPT !.extract = "raised", !.exc = r.exc,
                                          !.branch = "failed"]
                    /\ UNCHANGED vr
           ELSE IF VisionResponseRaises(r.value)
           THEN /\ pc' = "error"
                /\ resp' = HttpError(500, "Internal Server Error")
                /\ vr' = r.value
                /\ obs' = [obs EXCEPT !.extract = "returned"]
                /\ UNCHANGED <<disk, warnings>>
           ELSE LET out == VisionResponse(req.url, now, fetch, dom, warnings, r.value)
                IN  /\ pc' = "done"
                    /\ resp' = out
                    /\ vr' = r.value
                    /\ disk' = save_text_json(disk, key, model_dump(out))
                    /\ obs' = [obs EXCEPT !.extract = "returned", !.branch = "vision"]
                    /\ UNCHANGED warnings
    /\ UNCHANGED <<sec, backend, loop, gate, settings, imports, req, now, key, fetch, dom, use_vision>>

Next ==
    \/ \E r \in Requests, t \in Times, answer \in LadderAnswers : BrowseStart(r, t, answer)
    \/ \E page \in Pages, captured \in BOOLEAN : FetchRaises(page, captured)
    \/ \E page \in Pages : FetchReturns(page)
    \/ \E answer \in BackendAnswers : VisionReturns(answer)

Spec == Init /\ [][Next]_vars

-----------------------------------------------------------------------------
(* Claims about the handler, checked under Spec.                            *)

Last(seq) == seq[Len(seq)]

IsPrefix(a, b) == Len(a) <= Len(b) /\ SubSeq(b, 1, Len(a)) = a

DomOk == dom # Nil /\ ~dom.raised

Responded == pc = "done" /\ resp.status = 200

\* The response is the DOM outcome: its method and its text.
DomBased == resp.method_used = "dom" /\ resp.text_markdown = dom.text_markdown

\* C1: a request the gate rejects ends with the rejection (400 and the gate's
\* reason); the fetcher is not invoked, no extraction runs, and no file of the
\* cache is written.
C1_RejectionStopsRequest ==
    (gate.pc = "returned" /\ gate.result.raised) =>
        /\ pc = "rejected"
        /\ resp = HttpError(400, gate.result.msg)
        /\ gate.result.msg # ""
        /\ obs.fetch = 0 /\ obs.dom = 0 /\ obs.vision = 0
        /\ fetch = Nil /\ dom = Nil /\ vr = Nil
        /\ disk = EmptyDisk

\* A request for an address that resolves into the private network is refused.
C1_Witness ==
    /\ pc = "rejected"
    /\ gate.result = ValueError("Blocked host/IP by SSRF policy", <<10, 0, 0, 1>>)
    /\ resp.status = 400

\* C5: once the DOM outcome is there the ladder has decided, and it escalates
\* iff mode = vision, or visual_extraction with a mode other than dom, or mode =
\* auto with needsVision.
C5_EscalationDecision ==
    /\ DomOk => obs.escalated # "undecided"
    /\ obs.escalated # "undecided" =>
          (obs.escalated = "yes" <=>
              \/ req.mode = "vision"
              \/ req.visual_extraction /\ req.mode # "dom"
              \/ req.mode = "auto" /\ should_use_vision(dom))

\* Auto mode, a DOM outcome the heuristic trusts, and the flag alone escalates.
C5_Witness ==
    /\ DomOk
    /\ req.mode = "auto" /\ req.visual_extraction
    /\ ~should_use_vision(dom)
    /\ obs.escalated = "yes"

\* C6: in mode dom vision.extract is never invoked, and the response is the
\* DOM outcome with its confidence unchanged.
C6_DomModeNeverEscalates ==
    (req # Nil /\ req.mode = "dom") =>
        /\ obs.vision = 0
        /\ obs.escalated # "yes"
        /\ DomOk => Responded /\ DomBased /\ resp.confidence = dom.confidence

\* Mode dom with the flag set, a backend at hand and the lowest DOM confidence.
C6_Witness ==
    /\ Responded
    /\ req.mode = "dom" /\ req.visual_extraction
    /\ VisionAvailable(settings.openai_api_key)
    /\ dom.confidence = 10 /\ resp.confidence = 10

\* C7: when the ladder escalates (as it does for every mode = vision request)
\* and the extractor is unavailable, extract is not invoked and the response
\* is the DOM outcome with the vision-unavailable warning appended and the
\* confidence max(0.2, c - 0.1); when it is available, extract is invoked.
C7_UnavailableDegrades ==
    /\ (DomOk /\ req.mode = "vision") => obs.escalated = "yes"
    /\ obs.escalated = "yes" =>
          IF VisionAvailable(settings.openai_api_key)
          THEN obs.vision = 1
          ELSE /\ obs.vision = 0
               /\ Responded /\ DomBased
               /\ IsPrefix(dom.warnings, resp.warnings)
               /\ Last(resp.warnings) = W_NOKEY
               /\ resp.confidence = Max(20, dom.confidence - 10)

\* Mode vision without a key, on a page the DOM extractor trusts.
C7_Witness ==
    /\ Responded
    /\ req.mode = "vision"
    /\ ~VisionAvailable(settings.openai_api_key)
    /\ obs.vision = 0
    /\ dom.confidence = 90 /\ resp.confidence = 80

\* C8: when vision.extract raises, the request still returns the DOM outcome,
\* with a warning naming the failure appended and the confidence
\* max(0.2, c - 0.2).
C8_VisionFailureDegrades ==
    obs.extract = "raised" =>
        /\ Responded /\ DomBased
        /\ obs.exc # ""
        /\ IsPrefix(dom.warnings, resp.warnings)
        /\ Last(resp.warnings) = "Vision extraction failed: " \o obs.exc
        /\ resp.confidence = Max(20, dom.confidence - 20)

\* The backend answered with prose: the DOM outcome comes back at 0.9 - 0.2.
C8_Witness ==
    /\ Responded
    /\ obs.extract = "raised"
    /\ obs.exc = "Vision model returned non-JSON payload"
    /\ dom.confidence = 90 /\ resp.confidence = 70

\* C9: in the two degraded branches the response confidence is never
\* above the DOM confidence c: it is at most c - 0.1 (unavailable), c - 0.2
\* (failed), or it is the floor 0.2.
C9_DegradedNeverAboveDom ==
    /\ obs.branch = "unavailable" =>
          /\ resp.confidence <= dom.confidence
          /\ resp.confidence <= dom.confidence - 10 \/ resp.confidence = 20
    /\ obs.branch = "failed" =>
          /\ resp.confidence <= dom.confidence
          /\ resp.confidence <= dom.confidence - 20 \/ resp.confidence = 20

\* The answer of the backend is no object, or one of its fields has a type
\* browse cannot use.
IllTyped(v) ==
    \/ v.t # "dict"
    \/ v.warnings.t \notin {"absent", "list"}
    \/ v.confidence.t \notin {"absent", "num", "numstr"}

\* C10: once vision.extract has been called the request ends with a
\* response, never an error; a call that raised, or returned an ill-typed
\* value, ends with the DOM outcome and a warning.
C10_VisionFailuresAbsorbed ==
    obs.extract # "none" =>
        /\ Responded
        /\ (obs.extract = "raised" \/ IllTyped(vr)) =>
               DomBased /\ resp.warnings # <<>>

\* The extraction-payload writes the cache store has seen, in their order.
TextWrites == SelectSeq(disk.log, LAMBDA e : e.op = "save_text_json")

\* C11: a request that has returned a response has written exactly one
\* extraction payload, under its cache key, equal to the response it returned;
\* a request that has not returned one has written none, so that the write is
\* never later than the return.
C11_OnePayloadWritePerResponse ==
    IF Responded
    THEN /\ obs.branch \in {"dom", "unavailable", "failed", "vision"}
         /\ Len(TextWrites) = 1
         /\ TextWrites[1].key = key
         /\ DOMAIN disk.text = {key}
         /\ disk.text[key] = model_dump(resp)
    ELSE /\ TextWrites = <<>>
         /\ disk.text = <<>>

\* A successful vision extraction is answered, and its payload is on disk.
C11_Witness ==
    /\ Responded
    /\ obs.branch = "vision"
    /\ resp.method_used = "vision"
    /\ disk.text[key].text_markdown = VisionText
    /\ Len(TextWrites) = 1

\* C12: the key of a request is a function of its url, the UTC day of its
\* timestamp and its mode: for the same url, any timestamp and mode give the
\* same key iff the day and the mode are the same, whatever the time of day.
C12_KeyOfUrlDayMode ==
    key # Nil =>
        \A t \in Times, m \in Modes :
            cache_key(req.url, t, m) = key <=> (t.day = now.day /\ m = req.mode)

\* A request late on day 1: the key of the first hour of that day is its key,
\* the key of the next hour, on day 2, is not.
C12_Witness ==
    /\ key # Nil
    /\ now = [day |-> 1, hour |-> 23]
    /\ cache_key(req.url, [day |-> 1, hour |-> 0], req.mode) = key
    /\ cache_key(req.url, [day |-> 2, hour |-> 0], req.mode) # key

\* C13: every response the ladder returns, in every branch, has a confidence
\* within [0.0, 1.0].
C13_ResponseConfidenceInRange ==
    Responded => 0 <= resp.confidence /\ resp.confidence <= 100

\* The three penalty conditions of a DOM outcome.
IsShort(d) == TextLen(d.text_markdown) < 800

HasHint(d) == W_HINT \in Range(d.warnings)

IsNav(d) == W_NAV \in Range(d.warnings)

\* C14: whatever combination of the three penalty conditions holds, the
\* confidence extract_dom_content returns is within [0.0, 1.0].
C14_DomConfidenceInRange ==
    DomOk => 0 <= dom.confidence /\ dom.confidence <= 100

\* All three penalties stack on one text.
C14_Witness ==
    /\ DomOk
    /\ IsShort(dom) /\ HasHint(dom) /\ IsNav(dom)
    /\ dom.confidence = 10

\* C16: the warnings of a response produced by a successful vision extraction
\* hold no warning of the DOM extractor (short-content fallback, hint
\* detected, high navigation ratio).
C16_NoDomWarningInVisionResponse ==
    obs.branch = "vision" =>
        \A i \in 1..Len(resp.warnings) :
            resp.warnings[i] \notin {W_SHORT, W_HINT, W_NAV}

\* C16, amended: the warnings of a response produced by a successful vision
\* extraction are the warnings of the DOM extractor, then the escalation
\* warning (auto mode switched) if there is one, then the vision result's own
\* warnings.
C16_VisionWarningsAfterDomWarnings ==
    obs.branch = "vision" =>
        resp.warnings =
            dom.warnings
            \o (IF req.mode = "auto" /\ should_use_vision(dom) THEN <<W_AUTO>> ELSE <<>>)
            \o (IF vr.warnings.t = "list" THEN vr.warnings.l ELSE <<>>)

\* Auto mode escalates on a page with a hint; the vision result has a warning
\* of its own.
C16_Witness ==
    /\ obs.branch = "vision"
    /\ resp.method_used = "vision"
    /\ resp.warnings = <<W_HINT, W_AUTO, "blurred text">>

\* The citations of one type, in their order.
CitationsOfType(r, type) == SelectSeq(r.citations, LAMBDA c : c.type = type)

\* C17: a returned response has exactly one url citation, of the request URL;
\* with method vision it has, besides, one screenshot citation per screenshot
\* path of the fetch result, in the same order; with method dom it has no
\* screenshot citation.
C17_Citations ==
    Responded =>
        LET urls == CitationsOfType(resp, "url")
            shots == CitationsOfType(resp, "screenshot")
        IN  /\ Len(urls) = 1
            /\ urls[1].value = req.url
            /\ Len(urls) + Len(shots) = Len(resp.citations)
            /\ IF resp.method_used = "vision"
               THEN /\ Len(shots) = Len(fetch.screenshots)
                    /\ \A i \in 1..Len(shots) : shots[i].value = fetch.screenshots[i]
               ELSE /\ resp.method_used = "dom"
                    /\ shots = <<>>

\* A vision response over a full-page capture and a selector capture.
C17_Witness ==
    /\ Responded
    /\ resp.method_used = "vision"
    /\ Len(fetch.screenshots) = 2
    /\ Len(resp.citations) = 3
    /\ resp.citations[3].value = screenshot_path(key, SelectorSuffix(0))

\* C18: the fetcher is invoked at most once per request; when it fails the
\* request ends with an upstream-unavailable error (502), no DOM extraction
\* and no vision call are made, and neither HTML nor an extraction payload is
\* written to the cache store.
C18_FetchFailureIsTerminal ==
    /\ obs.fetch <= 1
    /\ pc = "failed" =>
          /\ resp.status = 502
          /\ obs.fetch = 1
          /\ obs.dom = 0 /\ obs.vision = 0
          /\ fetch = Nil /\ dom = Nil /\ vr = Nil
          /\ disk.html = <<>> /\ disk.text = <<>>
          /\ disk.log = <<>>

\* The renderer failed after its full-page capture: the capture is all the
\* store holds.
C18_Witness ==
    /\ pc = "failed"
    /\ resp.status = 502
    /\ obs.fetch = 1
    /\ DOMAIN disk.shots = {screenshot_path(key, FullSuffix)}
    /\ disk.html = <<>>

\* C19: DOM extraction has no failure mode: once the page is fetched,
\* extract_dom_content has returned an outcome, also when readability is not
\* installed or raises on the input, and the request goes on to its decision.
C19_DomExtractionNeverFails ==
    fetch # Nil =>
        /\ DomOk
        /\ obs.escalated # "undecided"
        /\ pc \in {"done", "vision"} \/ obs.extract # "none"

\* The text readability gives for the page, cleaned; empty when readability
\* is not installed.
ReadabilityText ==
    IF imports.Document THEN _clean_text(fetch.html.summary) ELSE <<>>

\* C23: the output text of extract_dom_content is the cleaned body text, and
\* the short-content warning is given, iff the readability text has fewer than
\* 300 characters; otherwise the readability text is the output and the
\* warning is not given.  When readability text and body text are both short,
\* the confidence is at most 0.55 and needsVision is true.
C23_FallbackBelow300 ==
    DomOk =>
        /\ IF TextLen(ReadabilityText) < 300
           THEN /\ dom.text_markdown = _clean_text(fetch.body_text)
                /\ W_SHORT \in Range(dom.warnings)
           ELSE /\ dom.text_markdown = ReadabilityText
                /\ W_SHORT \notin Range(dom.warnings)
        /\ (TextLen(ReadabilityText) < 300 /\ TextLen(_clean_text(fetch.body_text)) < 300)
              => dom.confidence <= 55 /\ should_use_vision(dom)

\* A readability text of exactly 300 characters is kept, though the body text
\* is longer.
C23_Witness ==
    /\ DomOk
    /\ TextLen(ReadabilityText) = 300
    /\ dom.text_markdown = ReadabilityText
    /\ dom.text_markdown # _clean_text(fetch.body_text)
    /\ dom.warnings = <<>>

-----------------------------------------------------------------------------
(* The server process serving one request after another: the cache         *)
(* directory stays, the locals of browse are those of the request at hand.  *)

MaxRequests == 3

RepeatPages == {p \in Pages : p.id \in {"story", "tiny"}}

RepeatBackendAnswers ==
    {b \in BackendAnswers :
        b.api = "error" \/ (b.raw = RawObject /\ b.value.t = "dict"
                            /\ b.value.tables_markdown.t = "str")}

RepeatInit ==
    /\ gate = GateIdle
    /\ settings = get_settings(None, "sk-key")
    /\ imports = [Document |-> TRUE]
    /\ pc = "idle"
    /\ req = Nil /\ now = Nil /\ key = Nil /\ fetch = Nil /\ dom = Nil
    /\ warnings = <<>> /\ use_vision = FALSE /\ vr = Nil /\ resp = Nil
    /\ obs = NoObs
    /\ disk = EmptyDisk
    /\ loop = Nil /\ backend = Nil /\ sec = Nil

\* The request at hand is over (answered, or ended with an error); the next
\* one arrives and browse is called anew: its locals are fresh, the module
\* globals and the cache directory are as the earlier requests left them.
BrowseAgain ==
    /\ pc \in {"done", "rejected", "failed", "error"}
    /\ obs.seq < MaxRequests
    /\ pc' = "idle"
    /\ gate' = GateIdle
    /\ req' = Nil /\ now' = Nil /\ key' = Nil /\ fetch' = Nil /\ dom' = Nil
    /\ warnings' = <<>> /\ use_vision' = FALSE /\ vr' = Nil /\ resp' = Nil
    /\ obs' = [NoObs EXCEPT !.seq = obs.seq + 1]
    /\ UNCHANGED <<settings, imports, disk, loop, backend, sec>>

RepeatNext ==
    \/ \E r \in [url : {[scheme |-> Http, host |-> ExCo, port |-> "none"]},
                  mode : {"dom", "vision"}, visual_extraction : {FALSE},
                  screenshot : [selectors : {<<>>}]],
          t \in Times,
          answer \in {Resolved(<<PublicIP>>), Resolved(<<<<10, 0, 0, 1>> >>)} :
          BrowseStart(r, t, answer)
    \/ \E page \in RepeatPages, captured \in BOOLEAN : FetchRaises(page, captured)
    \/ \E page \in RepeatPages : FetchReturns(page)
    \/ \E answer \in RepeatBackendAnswers : VisionReturns(answer)
    \/ BrowseAgain

SpecRepeat == RepeatInit /\ [][RepeatNext]_vars

\* The payload writes to the key of the request at hand, its own included.
WritesToKey == SelectSeq(disk.log, LAMBDA e : e.op = "save_text_json" /\ e.key = key)

\* C21, the request at hand: whatever the cache holds, a request that is
\* answered has run the gate, the fetch and the extraction once each, and the
\* HTML and the payload stored under its key are its own.
NoShortCircuit ==
    /\ pc \notin {"idle"} => obs.safety = 1
    /\ pc \in {"fetching", "vision", "done", "failed", "error"} => obs.fetch = 1
    /\ Responded =>
          /\ obs.dom = 1
          /\ disk.html[key] = fetch.html
          /\ disk.text[key] = model_dump(resp)

\* C21, the store: a step changes the file of a key only by writing what the
\* request at hand fetched or answers, and no file goes away; so each file
\* holds what its last writer wrote.
LastWriterWins ==
    /\ DOMAIN disk.text \subseteq DOMAIN disk'.text
    /\ DOMAIN disk.html \subseteq DOMAIN disk'.html
    /\ \A k \in DOMAIN disk'.text :
          (k \notin DOMAIN disk.text \/ disk'.text[k] # disk.text[k])
              => k = key /\ Responded' /\ disk'.text[k] = model_dump(resp')
    /\ \A k \in DOMAIN disk'.html :
          (k \notin DOMAIN disk.html \/ disk'.html[k] # disk.html[k])
              => k = key /\ disk'.html[k] = fetch'.html

\* C21: the ladder never consults the cache to skip work: a request whose key
\* has stored artifacts still runs the safety check, the fetch and the
\* extraction and overwrites the stored HTML and payload with its own; after
\* any sequence of requests the payload at a key is that of the last writer.
C21_CacheNeverShortCircuits == []NoShortCircuit /\ [][LastWriterWins]_vars

\* A second request with the key of the first, later on the same day: the
\* payload under the key is the second's.
C21_Witness ==
    /\ Responded
    /\ obs.seq = 2
    /\ Len(WritesToKey) = 2
    /\ obs.safety = 1 /\ obs.fetch = 1 /\ obs.dom = 1
    /\ now.hour = 23
    /\ disk.text[key].fetched_at = now
    /\ disk.html[key] = fetch.html

-----------------------------------------------------------------------------
(* should_use_vision on its own: one call, on any DomExtractionResult (the  *)
(* function does not ask that extract_dom_content made it).                 *)

HeuristicTexts ==
    {<<>>, <<Line(399, 0, ""), Line(399, 0, "")>>, <<Line(400, 0, ""), Line(399, 0, "")>>}
    \cup {<<Line(n, 0, p)>> : n \in {20, 799, 800, 801}, p \in {"", "paywall", "CAPTCHA", "captain"}}

DomResults ==
    [raised : {FALSE}, title : {"t"}, text_markdown : HeuristicTexts,
     warnings : {<<>>}, confidence : {0, 54, 55, 56, 90, 100}]

HeuristicInit ==
    /\ gate = GateIdle
    /\ dom \in DomResults
    /\ pc = "heuristic"
    /\ use_vision = FALSE
    /\ settings = Nil /\ imports = Nil /\ req = Nil /\ now = Nil /\ key = Nil
    /\ fetch = Nil /\ warnings = <<>> /\ vr = Nil /\ resp = Nil /\ obs = Nil
    /\ disk = Nil /\ loop = Nil /\ backend = Nil /\ sec = Nil

\* should_use_vision(dom) is called and returns.
HeuristicApply ==
    /\ pc = "heuristic"
    /\ use_vision' = should_use_vision(dom)
    /\ pc' = "heuristic_done"
    /\ UNCHANGED <<sec, backend, loop, gate, settings, imports, req, now, key, fetch, dom, warnings,
                   vr, resp, obs, disk>>

HeuristicNext == HeuristicApply

SpecHeuristic == HeuristicInit /\ [][HeuristicNext]_vars

\* The text, lower-cased, contains one of the hint phrases.
MentionsHint(text) ==
    \E i \in 1..Len(text) :
        LowerPhrase(text[i].phrase) \in
            {"enable javascript", "captcha", "subscribe to read", "paywall",
             "access denied"}

\* C15: should_use_vision(dom) is true exactly when the text is shorter than
\* 800 characters, or its lower-cased text contains a hint phrase, or the
\* confidence is below 0.55; so it is true for every text of at most 799
\* characters, and 800 characters are not short.
C15_NeedsVisionExactly ==
    pc = "heuristic_done" =>
        /\ use_vision <=> \/ TextLen(dom.text_markdown) < 800
                          \/ MentionsHint(dom.text_markdown)
                          \/ dom.confidence < 55
        /\ TextLen(dom.text_markdown) <= 799 => use_vision

\* A text of exactly 800 characters without a hint, at confidence 0.55: no
\* vision.
C15_Witness ==
    /\ pc = "heuristic_done"
    /\ TextLen(dom.text_markdown) = 800
    /\ ~MentionsHint(dom.text_markdown)
    /\ dom.confidence = 55
    /\ ~use_vision

-----------------------------------------------------------------------------
(* The server process with several requests in flight.  browse is a         *)
(* coroutine on the one thread of the asyncio event loop: a task runs from  *)
(* one await to the next, and the thread serves another task only at an     *)
(* await.  browse awaits fetch_with_playwright; vision.extract is a plain   *)
(* function whose call of client.responses.create returns when the backend  *)
(* has answered, so the thread stays inside the task for the round trip.    *)
(* Of each request this specification keeps its position, what decides its  *)
(* branch, and the branch it took.  The requests are for one URL on one     *)
(* day, so that the mode tells their cache keys apart; of the screenshot    *)
(* files of a key it keeps the request whose fetch wrote them last.         *)

MaxTasks == 2

Tasks == 1..MaxTasks

\* given: whose images the files held when vision.extract read them; listed:
\* whose images the files held when the response listing them was returned
\* (0: not yet).
IdleTask ==
    [pc |-> "idle", mode |-> "none", visual_extraction |-> FALSE, branch |-> "none",
     given |-> 0, listed |-> 0]

\* thread: 0 when the loop is at an await and may resume any task that is
\* ready, i when it is inside a call made by task i.
LoopInit ==
    /\ loop \in [thread : {0}, available : BOOLEAN,
                 tasks : {[i \in Tasks |-> IdleTask]},
                 shots : {[m \in Modes |-> 0]}]
    /\ gate = GateIdle
    /\ settings = Nil /\ imports = Nil /\ pc = "loop" /\ req = Nil /\ now = Nil
    /\ key = Nil /\ fetch = Nil /\ dom = Nil /\ warnings = <<>>
    /\ use_vision = FALSE /\ vr = Nil /\ resp = Nil /\ obs = Nil /\ disk = Nil
    /\ backend = Nil /\ sec = Nil

LoopUnchanged ==
    UNCHANGED <<gate, settings, imports, pc, req, now, key, fetch, dom, warnings,
                use_vision, vr, resp, obs, disk, backend, sec>>

\* browse, lines 63-79: the task of a request starts; the gate rejects it, or
\* it reaches the await of the fetch.
LoopStart(i, r, passes) ==
    /\ loop.thread = 0
    /\ loop.tasks[i].pc = "idle"
    /\ loop' = [loop EXCEPT !.tasks[i] =
                  [pc |-> IF passes THEN "fetching" ELSE "rejected",
                   mode |-> r.mode, visual_extraction |-> r.visual_extraction,
                   branch |-> "none", given |-> 0, listed |-> 0]]
    /\ LoopUnchanged

\* _take_screenshots, browser.py 34-47: the browser of task i has written the
\* screenshot files of the task's key, at the paths screenshot_path gives for
\* the key; the fetch still awaits the closing of the browser (lines 59, 77).
LoopCaptured(i) ==
    /\ loop.thread = 0
    /\ loop.tasks[i].pc = "fetching"
    /\ loop' = [loop EXCEPT !.tasks[i].pc = "closing",
                            !.shots[loop.tasks[i].mode] = i]
    /\ LoopUnchanged

\* browse, lines 80-81: the fetch of task i has raised, before or after its
\* screenshots; the task is resumed and ends with 502.
LoopFetchRaises(i) ==
    /\ loop.thread = 0
    /\ loop.tasks[i].pc \in {"fetching", "closing"}
    /\ loop' = [loop EXCEPT !.tasks[i].pc = "failed"]
    /\ LoopUnchanged

\* browse, lines 83-128: the fetch of task i has returned; the task is resumed
\* and runs to its return of a DOM outcome, or into vision.extract, where the
\* thread stays.  needs is what should_use_vision says of its DOM outcome.
LoopFetchReturns(i, needs) ==
    /\ loop.thread = 0
    /\ loop.tasks[i].pc = "closing"
    /\ LET t == loop.tasks[i]
           uv == UseVision(t.mode, t.visual_extraction, needs)
           held == loop.shots[t.mode]
       IN  IF DomBranch(t.mode, uv)
           THEN loop' = [loop EXCEPT !.tasks[i].pc = "done",
                                     !.tasks[i].branch = "dom",
                                     !.tasks[i].listed = held]
           ELSE IF ~loop.available
           THEN loop' = [loop EXCEPT !.tasks[i].pc = "done",
                                     !.tasks[i].branch = "unavailable",
                                     !.tasks[i].listed = held]
           ELSE loop' = [loop EXCEPT !.tasks[i].pc = "vision", !.thread = i,
                                     !.tasks[i].given = held]
    /\ LoopUnchanged

\* browse, lines 127-162: the backend has answered the call of task i;
\* vision.extract returns or raises, the task runs to its return, and the
\* thread is back at the loop.
LoopVisionReturns(i, raised) ==
    /\ loop.thread = i
    /\ loop.tasks[i].pc = "vision"
    /\ loop' = [loop EXCEPT !.tasks[i].pc = "done",
                            !.tasks[i].branch = IF raised THEN "failed" ELSE "vision",
                            !.tasks[i].listed = loop.shots[loop.tasks[i].mode],
                            !.thread = 0]
    /\ LoopUnchanged

LoopNext ==
    \/ \E i \in Tasks, r \in [mode : Modes, visual_extraction : BOOLEAN], passes \in BOOLEAN : LoopStart(i, r, passes)
    \/ \E i \in Tasks : LoopCaptured(i)
    \/ \E i \in Tasks : LoopFetchRaises(i)
    \/ \E i \in Tasks, needs \in BOOLEAN : LoopFetchReturns(i, needs)
    \/ \E i \in Tasks, raised \in BOOLEAN : LoopVisionReturns(i, raised)

SpecLoop == LoopInit /\ [][LoopNext]_vars

\* The next step of a request whose fetch is under way: its fetch ends and
\* the handler runs on.
NextStepOf(j) ==
    \/ LoopCaptured(j)
    \/ LoopFetchRaises(j)
    \/ \E needs \in BOOLEAN : LoopFetchReturns(j, needs)

\* The second half of C20, which holds: the end of a vision call, failed or
\* not, changes no other request.
VisionCallIsLocal ==
    [][\A i \in Tasks :
          (loop.tasks[i].pc = "vision" /\ loop'.tasks[i].pc = "done")
              => \A j \in Tasks \ {i} : loop'.tasks[j] = loop.tasks[j]]_vars

\* C20: the vision call of one request does not block the other requests in
\* flight: while it lasts, each of them can take its next step.
C20_VisionCallDoesNotBlock ==
    \A i \in Tasks, j \in Tasks :
        (i # j /\ loop.tasks[i].pc = "vision"
               /\ loop.tasks[j].pc \in {"fetching", "closing"})
            => ENABLED NextStepOf(j)

\* The screenshot files a request has handed to vision.extract, and those
\* its response lists, held the images of the request's own fetch.
OwnScreenshots(i) ==
    LET t == loop.tasks[i]
    IN  /\ t.pc = "vision" => t.given = i
        /\ t.pc = "done" =>
              /\ t.listed = i
              /\ t.branch \in {"vision", "failed"} => t.given = i

\* C27: of requests running concurrently with the same URL, day and mode,
\* hence the same screenshot paths, each hands to vision.extract and lists in
\* its response files that hold the images captured by its own fetch.
C27_OwnScreenshots == \A i \in Tasks : OwnScreenshots(i)

\* What holds: a request finds the images of another request in its files
\* only if that request has the same mode, that is the same key.
OtherImagesOnlyOfSameKey ==
    \A i \in Tasks :
        ~OwnScreenshots(i) =>
            \E j \in Tasks \ {i} : loop.tasks[j].mode = loop.tasks[i].mode

-----------------------------------------------------------------------------
(* VisionExtractor.extract on its own: one call, the backend answering with *)
(* any text.                                                                *)

MaxRawLen == 5

RawPieces == {"{", "}", "s", "a", "w"}

RawTexts == {<<>>} \cup SeqsUpTo(RawPieces, MaxRawLen)

ParseInit ==
    /\ backend \in [api : {"ok"}, raw : RawTexts,
                    value : {JDict(JStr(VisionText), Absent, Absent, Absent)}]
    /\ pc = "parse"
    /\ vr = Nil
    /\ gate = GateIdle
    /\ settings = Nil /\ imports = Nil /\ req = Nil /\ now = Nil /\ key = Nil
    /\ fetch = Nil /\ dom = Nil /\ warnings = <<>> /\ use_vision = FALSE
    /\ resp = Nil /\ obs = Nil /\ disk = Nil /\ loop = Nil /\ sec = Nil

\* vision.extract is called and returns or raises; vr is its outcome.
ParseApply ==
    /\ pc = "parse"
    /\ vr' = extract(backend)
    /\ pc' = "parse_done"
    /\ UNCHANGED <<sec, backend, loop, gate, settings, imports, req, now, key, fetch,
                   dom, warnings, use_vision, resp, obs, disk>>

ParseNext == ParseApply

SpecParse == ParseInit /\ [][ParseNext]_vars

\* Where the JSON objects of a text stand: from piece p[1] to piece p[2].
ObjectsIn(raw) ==
    {p \in (1..Len(raw)) \X (1..Len(raw)) :
        p[1] < p[2] /\ IsObject(SubSeq(raw, p[1], p[2]))}

\* The first of them.
FirstObjectIn(raw) ==
    LET p == CHOOSE p \in ObjectsIn(raw) : \A q \in ObjectsIn(raw) : p[1] <= q[1]
    IN  SubSeq(raw, p[1], p[2])

\* C22: for a raw output that is not valid JSON, extract returns the parse of
\* the first JSON object of the text whenever the text holds one, whatever
\* surrounds it, and raises only when it holds none.
C22_FirstEmbeddedObjectParsed ==
    (pc = "parse_done" /\ ~json_loads_ok(backend.raw)) =>
        IF ObjectsIn(backend.raw) = {}
        THEN vr.raised
        ELSE ~vr.raised /\ vr.parsed = FirstObjectIn(backend.raw)

\* What holds of C22: when extract returns, it returns the parse of the first
\* object of the text, and a text without an object makes it raise.
ReturnsOnlyFirstObject ==
    (pc = "parse_done" /\ ~json_loads_ok(backend.raw)) =>
        /\ ObjectsIn(backend.raw) = {} => vr.raised
        /\ ~vr.raised => vr.parsed = FirstObjectIn(backend.raw)

-----------------------------------------------------------------------------
(* The DOM outcome of a request, measured on its final text.                *)

\* The share of the non-blank lines shorter than 40 characters exceeds 0.7.
MostLinesShort(text) ==
    LET nonblank == {i \in 1..Len(text) : text[i].n - text[i].pad > 0}
        short == {i \in nonblank : text[i].n - text[i].pad < 40}
    IN  10 * Cardinality(short) > 7 * Max(Cardinality(nonblank), 1)

\* 0.9 less the penalties of the conditions that hold, in hundredths.
PenalisedConfidence(text) ==
    90 - (IF TextLen(text) < 800 THEN 35 ELSE 0)
       - (IF MentionsHint(text) THEN 25 ELSE 0)
       - (IF MostLinesShort(text) THEN 20 ELSE 0)

\* The confidence is 0.9 less the independent penalties; the hint warning and
\* the navigation warning are given exactly with their penalties.
PenaltiesAndWarnings ==
    /\ dom.confidence = PenalisedConfidence(dom.text_markdown)
    /\ HasHint(dom) <=> MentionsHint(dom.text_markdown)
    /\ IsNav(dom) <=> MostLinesShort(dom.text_markdown)
    /\ Range(dom.warnings) \subseteq {W_SHORT, W_HINT, W_NAV}

\* A text of at least 800 characters with no hint and a ratio of at most 0.7.
CleanLongText ==
    /\ TextLen(dom.text_markdown) >= 800
    /\ ~MentionsHint(dom.text_markdown)
    /\ ~MostLinesShort(dom.text_markdown)

\* C24 as stated: the confidence is 0.9 less 0.35 for a final text under 800
\* characters, 0.25 for a hint and 0.20 for a short-line ratio above 0.7, the
\* hint and navigation warnings are given exactly with their penalties, and a
\* text of at least 800 characters with no hint and a ratio of at most 0.7
\* gets confidence 0.9, no warnings and needsVision = false.
C24_CleanLongTextHasNoWarnings ==
    DomOk =>
        /\ PenaltiesAndWarnings
        /\ CleanLongText =>
              /\ dom.confidence = 90
              /\ dom.warnings = <<>>
              /\ ~should_use_vision(dom)

\* C24, amended: the same confidence and the same two warnings; the text of
\* at least 800 characters with no hint and a ratio of at most 0.7 gets
\* confidence 0.9, needsVision = false and no hint or navigation warning, its
\* only warning being the short-content warning when the text is the body
\* text taken as fallback.
C24_PenaltiesAndWarnings ==
    DomOk =>
        /\ PenaltiesAndWarnings
        /\ CleanLongText =>
              /\ dom.confidence = 90
              /\ ~should_use_vision(dom)
              /\ dom.warnings = IF TextLen(ReadabilityText) < 300
                                THEN <<W_SHORT>> ELSE <<>>

\* A long body text taken as fallback for a short readability text: full
\* confidence with the short-content warning.
C24_Witness ==
    /\ DomOk
    /\ imports.Document
    /\ CleanLongText
    /\ TextLen(ReadabilityText) < 300
    /\ dom.confidence = 90
    /\ dom.warnings = <<W_SHORT>>

\* The text and the tables of the response are those of the vision result
\* (an empty text and no tables where the result has none).
VisionBased ==
    /\ vr # Nil
    /\ resp.text_markdown =
          (IF vr.text_markdown.t = "str" THEN vr.text_markdown.s ELSE <<>>)
    /\ resp.tables_markdown =
          (IF vr.tables_markdown.t = "str"
           THEN [present |-> TRUE, text |-> vr.tables_markdown.s] ELSE NoTables)

\* C25: in every returned response, method_used = vision iff vision.extract
\* was invoked in the request and returned a result, and then the text and the
\* tables are the vision result's; otherwise method_used = dom, the text is
\* the DOM outcome's and there are no tables.  vision.extract is invoked at
\* most once per request.
C25_MethodUnmixed ==
    /\ obs.vision <= 1
    /\ Responded =>
          IF obs.vision = 1 /\ obs.extract = "returned"
          THEN resp.method_used = "vision" /\ VisionBased
          ELSE DomBased /\ resp.tables_markdown = NoTables

\* A vision response whose text and tables differ from the DOM outcome's.
C25_Witness ==
    /\ Responded
    /\ obs.vision = 1 /\ obs.extract = "returned"
    /\ resp.method_used = "vision"
    /\ resp.text_markdown = VisionText
    /\ resp.text_markdown # dom.text_markdown
    /\ resp.tables_markdown.present

\* The final text has at least 800 characters and no hint phrase, and most of
\* its lines are short.
LongNavigationText ==
    /\ TextLen(dom.text_markdown) >= 800
    /\ ~MentionsHint(dom.text_markdown)
    /\ MostLinesShort(dom.text_markdown)

\* needsVision is the disjunction of the first two conditions: a confidence
\* below 0.55 comes with one of them.
NeedsVisionIsShortOrHint ==
    /\ should_use_vision(dom) <=>
          (TextLen(dom.text_markdown) < 800 \/ MentionsHint(dom.text_markdown))
    /\ dom.confidence < 55 =>
          (TextLen(dom.text_markdown) < 800 \/ MentionsHint(dom.text_markdown))

\* The navigation-heavy long text keeps the DOM method.
NavigationTextStaysDom ==
    /\ dom.confidence = 70
    /\ IsNav(dom)
    /\ ~should_use_vision(dom)
    /\ obs.vision = 0
    /\ Responded /\ DomBased

\* C26 as stated: for every outcome of extract_dom_content, needsVision is
\* equivalent to (text under 800 characters or hint present), and in auto mode
\* a page of at least 800 characters without hint but with a high navigation
\* ratio is returned with method_used = dom, vision.extract not being invoked.
C26_AutoKeepsNavigationPageDom ==
    DomOk =>
        /\ NeedsVisionIsShortOrHint
        /\ (req.mode = "auto" /\ LongNavigationText) => NavigationTextStaysDom

\* C26, amended: the same equivalence; the navigation-heavy page is returned
\* with method_used = dom, vision.extract not being invoked, in auto mode when
\* the request does not set visual_extraction.
C26_NeedsVisionIsShortOrHint ==
    DomOk =>
        /\ NeedsVisionIsShortOrHint
        /\ (req.mode = "auto" /\ ~req.visual_extraction /\ LongNavigationText)
              => NavigationTextStaysDom

\* The navigation page requested in auto mode, with a backend at hand.
C26_Witness ==
    /\ Responded
    /\ req.mode = "auto" /\ ~req.visual_extraction
    /\ VisionAvailable(settings.openai_api_key)
    /\ LongNavigationText
    /\ dom.confidence = 70
    /\ resp.method_used = "dom"
    /\ obs.vision = 0

-----------------------------------------------------------------------------
(* hal/sec_edgar.py: one call of SecClient.get.  Durations are in halves of *)
(* a second.  The value of a Retry-After header is a sequence of            *)
(* characters; "sup2" stands for the one character SUPERSCRIPT TWO, a digit *)
(* for str.isdigit that float() does not read.                              *)

MaxRetries == 3

DecimalDigits == {"0", "1", "2", "3", "4", "5", "6", "7", "8", "9"}

\* retry_after.isdigit()
isdigit(h) == h # <<>> /\ \A i \in 1..Len(h) : h[i] \in DecimalDigits \cup {"sup2"}

\* float(retry_after) raises ValueError: of the digits of isdigit it reads
\* the decimal ones only.
FloatRaises(h) == \E i \in 1..Len(h) : h[i] \notin DecimalDigits

RECURSIVE StripZeros(_)
StripZeros(h) ==
    IF Len(h) > 1 /\ Head(h) = "0" THEN StripZeros(Tail(h)) ELSE h

\* time.sleep(seconds) raises OverflowError: the duration, from ten thousand
\* million seconds on, is beyond the range of the clock.
SleepRaises(h) == Len(StripZeros(h)) > 10

RECURSIVE SecondsOf(_)
SecondsOf(h) ==
    IF h = <<>> THEN 0
    ELSE 10 * SecondsOf(SubSeq(h, 1, Len(h) - 1))
            + (CHOOSE d \in 0..9 : ToString(d) = Last(h))

\* What self._client.get(url) does: it raises httpx.HTTPError, or returns a
\* response with a status and, possibly, a Retry-After header.
TransportError == [kind |-> "HTTPError", status |-> 0, retry_after |-> None]

Response(status, retry_after) ==
    [kind |-> "response", status |-> status, retry_after |-> retry_after]

HttpOutcomes ==
    {TransportError}
        \cup {Response(st, None) : st \in {200, 304, 399, 400, 404, 429, 500, 503}}
        \cup {Response(st, h) :
                 st \in {429, 503},
                 h \in { None, <<>>, <<"7">>, <<"0", "1", "2">>, <<"W", "e", "d">>,
                         <<"sup2">>,
                         <<"1", "0", "0", "0", "0", "0", "0", "0", "0", "0", "0">> }}

\* get, lines 60-61: the call has begun.  throttles and attempts count the
\* calls of _throttle and of self._client.get; last is what the latest
\* attempt gave, slept the sleep that followed it.
SecInit ==
    /\ sec \in [pc : {"loop"}, max_retries : 0..MaxRetries, attempt : {0},
                backoff : {1}, throttles : {0}, throttle_slept : {FALSE},
                attempts : {0}, last : {[kind |-> "none", status |-> 0, retry_after |-> None]}, slept : {0}, exc : {""}]
    /\ pc = "sec"
    /\ gate = GateIdle
    /\ settings = Nil /\ imports = Nil /\ req = Nil /\ now = Nil /\ key = Nil
    /\ fetch = Nil /\ dom = Nil /\ warnings = <<>> /\ use_vision = FALSE
    /\ vr = Nil /\ resp = Nil /\ obs = Nil /\ disk = Nil /\ loop = Nil
    /\ backend = Nil

SecUnchanged ==
    UNCHANGED <<gate, settings, imports, pc, req, now, key, fetch, dom, warnings,
                use_vision, vr, resp, obs, disk, loop, backend>>

\* get, lines 62-63: the loop has an attempt left and calls _throttle, which
\* sleeps when the previous request was less than _min_interval ago (early).
_throttle(early) ==
    /\ sec.pc = "loop"
    /\ sec.attempt <= sec.max_retries
    /\ sec' = [sec EXCEPT !.pc = "request", !.throttles = @ + 1,
                          !.throttle_slept = early]
    /\ SecUnchanged

\* The end of an attempt that is to be retried: sleep, then the next round.
Retry(out, slept, backoff) ==
    [sec EXCEPT !.pc = "loop", !.attempts = @ + 1, !.attempt = @ + 1, !.last = out,
                !.slept = slept, !.backoff = backoff]

\* The end of the call: it returns the response, or raises exc.
Finish(out, how, exc) ==
    [sec EXCEPT !.pc = how, !.attempts = @ + 1, !.last = out, !.slept = 0,
                !.exc = exc]

\* get, lines 64-89: one attempt and what follows it.
get(out) ==
    /\ sec.pc = "request"
    /\ sec' =
        IF out.kind = "HTTPError"
        THEN IF sec.attempt >= sec.max_retries
             THEN Finish(out, "raised", "SecEdgarError")
             ELSE Retry(out, sec.backoff, 2 * sec.backoff)
        ELSE IF out.status \in {429, 503}
        THEN IF sec.attempt >= sec.max_retries
             THEN Finish(out, "raised", "SecEdgarError")
             ELSE LET h == out.retry_after
                  IN  IF h # None /\ h # <<>> /\ isdigit(h)
                      THEN IF FloatRaises(h) THEN Finish(out, "raised", "ValueError")
                           ELSE IF SleepRaises(h)
                           THEN Finish(out, "raised", "OverflowError")
                           ELSE Retry(out, 2 * SecondsOf(h), sec.backoff)
                      ELSE Retry(out, sec.backoff, 2 * sec.backoff)
        ELSE IF out.status >= 400 THEN Finish(out, "raised", "SecEdgarError")
        ELSE Finish(out, "returned", "")
    /\ SecUnchanged

SecNext ==
    \/ \E early \in BOOLEAN : _throttle(early)
    \/ \E out \in HttpOutcomes : get(out)

SpecSec == SecInit /\ [][SecNext]_vars

\* The scheduling of a plain function call: the call goes on while it can.
SpecSecFair == SpecSec /\ WF_vars(SecNext)

Retryable(out) ==
    out.kind = "HTTPError" \/ (out.kind = "response" /\ out.status \in {429, 503})

\* What holds of C28: at most max_retries + 1 attempts, each preceded by its
\* throttle; a further attempt only after a transport error or a 429/503; a
\* returned response has a status below 400; any other status of 400 or more
\* raises SecEdgarError at once.
GetAttemptsAndRetries ==
    /\ sec.attempts <= sec.max_retries + 1
    /\ sec.throttles = sec.attempts + (IF sec.pc = "request" THEN 1 ELSE 0)
    /\ (sec.attempts > 0 /\ sec.pc \in {"loop", "request"}) => Retryable(sec.last)
    /\ sec.pc = "returned" => sec.last.kind = "response" /\ sec.last.status < 400
    /\ (sec.last.kind = "response" /\ sec.last.status >= 400 /\ ~Retryable(sec.last))
          => sec.pc = "raised" /\ sec.exc = "SecEdgarError"

\* The call ends.
GetTerminates == <>(sec.pc \in {"returned", "raised"})

\* C28: SecClient.get ends after at most max_retries + 1 HTTP attempts, each
\* preceded by the throttle, with a response of status below 400 or with
\* SecEdgarError; it retries only after a transport error or a 429/503, and
\* any other status of 400 or more raises SecEdgarError at once.
C28_GetReturnsOrRaisesSecEdgarError ==
    /\ GetAttemptsAndRetries
    /\ sec.pc = "raised" => sec.exc = "SecEdgarError"

=============================================================================
